---- MODULE Spec2Model ----
(***************************************************************************)
(* Model of the snapmaker-cnc-finisher optimisation engine.                *)
(*                                                                         *)
(* Numbers.  A float64 coordinate is modelled by an integer number of      *)
(* units, one unit being 1e-5 mm, so that the four-decimal rounding of     *)
(* SplitMove (math.Round(v*10000)/10000) is the rounding of a value to a   *)
(* multiple of RoundGrid units and is not the identity.  The quotient t    *)
(* and the interpolated coordinates are exact rationals <<n, d>> with      *)
(* d > 0; float64 rounding error is outside the model.                     *)
(*                                                                         *)
(* A gcode.Line is [Codes, Comment], Codes the sequence of its codes, each *)
(* [Letter, Value]; the zero value gcode.Line{} has no codes and an empty  *)
(* comment.                                                                *)
(***************************************************************************)
EXTENDS Integers, Sequences, FiniteSets, TLC

VARIABLES
    \* ---- one call chain ClassifyMove / CalculateIntersection / SplitMove
    g_pc,        \* "input" | "classified" | "intersected" | "split" | "decided"
    g_threshold, \* Optimizer.threshold
    g_start,     \* modal state before the line: [X, Y, Z, B, F]
    g_line,      \* the gcode.Line
    g_cls,       \* result of ClassifyMove
    g_ipt,       \* result of CalculateIntersection
    g_split,     \* result of SplitMove (4-axis version)
    g_split3,    \* result of SplitMove (3-axis version)
    g_decision,  \* [cls, strategy, preserve]: one evaluation of ShouldPreserve
    \* ---- the two-pass pipeline optimizeGCodeFile
    pc,             \* "start" | "scanned" | "pass2" | "done" | "failed"
    file,           \* Parser.file.Lines
    maxZ,           \* Parser.header.MaxZ
    allowance,      \* command-line allowance
    strategy,       \* command-line strategy
    state,          \* Parser.state
    minZ,           \* result of ScanMinZ
    opt,            \* the Optimizer: [threshold, strategy]
    idx,            \* number of lines pass 2 has consumed
    output,         \* lines written through writer.WriteLine, in order
    linesProcessed,
    linesRemoved,
    linesPreserved,
    linesSplit,
    result,         \* progress.OptimizationResult (the counters in it)
    log,            \* per consumed line: what pass 2 saw and did

    \* ---- the streaming filter, run
    s_pc,              \* "run" (in the line loop) | "done"
    s_input,           \* the lines of the input file
    s_metadata,        \* *gcode.Metadata: [MinZ, MaxZ, ZReference]
    s_allowance,       \* parsedArgs.Allowance
    s_strategy,        \* the FilterStrategy
    s_stats,           \* *optimizer.Statistics: [TotalLines, RemovedLines, EstimatedTimeSaved]
    s_last,            \* lastX, lastY, lastZ
    s_currentFeedRate,
    s_feedRateWarned,
    s_warnings,        \* what cli.PrintWarning was called for, in order
    s_writer,          \* the BufferedWriter: [lines, lineCount]
    s_log,             \* per line read: what the iteration saw and did

    \* ---- the configuration of a run, the head of run
    c_pc,        \* "args" | "parsed" | "validated" | "strategy" | "running" | "exit"
    c_args,      \* the command line: [strategy, force, positional, allowance]
    c_env,       \* the file system: [inputExists, outputDirExists, outputExists]
    c_parsed,    \* *cli.Args, the result of ParseArgs
    c_strategy,  \* the FilterStrategy of the run, <<>> before it is parsed
    c_stderr,    \* the errors printed by cli.PrintError
    c_exit       \* the exit code, <<>> while there is none

geomVars == <<g_pc, g_threshold, g_start, g_line, g_cls, g_ipt, g_split,
              g_split3, g_decision>>
pipeVars == <<pc, file, maxZ, allowance, strategy, state, minZ, opt, idx,
              output, linesProcessed, linesRemoved, linesPreserved,
              linesSplit, result, log>>
streamVars == <<s_pc, s_input, s_metadata, s_allowance, s_strategy, s_stats, s_last,
                s_currentFeedRate, s_feedRateWarned, s_warnings, s_writer, s_log>>
configVars == <<c_pc, c_args, c_env, c_parsed, c_strategy, c_stderr, c_exit>>
vars == <<geomVars, pipeVars, streamVars, configVars>>

----------------------------------------------------------------------------
\* Numbers

\* math.Abs
Abs(x) == IF x < 0 THEN -x ELSE x

\* 1e-4 mm, the grid math.Round(v*10000)/10000 rounds to, in units of 1e-5 mm
RoundGrid == 10

\* 1e-9 mm is 1/TolPerUnit of a unit
TolPerUnit == 10000

\* a rational n/d, d > 0, from any quotient a/b with b # 0
Rat(a, b) == IF b < 0 THEN <<-a, -b>> ELSE <<a, b>>

\* start + t*(end - start) for integer start, end and rational t
Lerp(start, end, t) == <<start * t[2] + t[1] * (end - start), t[2]>>

\* math.Round(v*10000)/10000 of the rational v: the nearest multiple of
\* RoundGrid, halves away from zero
Round4(v) ==
    LET n == v[1]
        d == v[2] * RoundGrid
    IN  IF n >= 0
        THEN ((2 * n + d) \div (2 * d)) * RoundGrid
        ELSE -(((2 * (-n) + d) \div (2 * d)) * RoundGrid)

----------------------------------------------------------------------------
\* gcode.Line helpers

Code(l, v) == [Letter |-> l, Value |-> v]

\* gcode.Line{Codes: codes}
Line(codes) == [Codes |-> codes, Comment |-> ""]

\* gcode.Line{}
EmptyLine == Line(<<>>)

\* "for _, code := range line.Codes { if code.Letter == L { has = true } }"
HasLetter(line, l) == \E i \in DOMAIN line.Codes : line.Codes[i].Letter = l

\* "for _, code := range line.Codes { if code.Letter == L { v = code.Value } }"
\* started from dflt: the last occurrence wins
LetterValue(line, l, dflt) ==
    LET at == {i \in DOMAIN line.Codes : line.Codes[i].Letter = l}
    IN  IF at = {} THEN dflt
        ELSE line.Codes[CHOOSE i \in at : \A j \in at : j <= i].Value

\* "for _, code := range line.Codes { if code.Letter == "G" && code.Value == v"
HasG(line, v) ==
    \E i \in DOMAIN line.Codes : line.Codes[i].Letter = "G" /\ line.Codes[i].Value = v

----------------------------------------------------------------------------
\* package optimizer

Classifications == {"Shallow", "Deep", "CrossingEnter", "CrossingLeave", "NonCutting"}
Strategies == {"Conservative", "Aggressive"}

NewOptimizer(mz, allow, strat) == [threshold |-> mz + allow, strategy |-> strat]

\* mutant: a depth on the threshold counts as above it
ClassifyMove_Strict(startZ, endZ, threshold) ==
    LET startDeep == startZ < threshold
        endDeep   == endZ < threshold
    IN  IF ~startDeep /\ ~endDeep THEN "Shallow"
        ELSE IF startDeep /\ endDeep THEN "Deep"
        ELSE IF ~startDeep /\ endDeep THEN "CrossingEnter"
        ELSE "CrossingLeave"

ClassifyMove(startZ, endZ, threshold) ==
    LET startDeep == startZ <= threshold
        endDeep   == endZ <= threshold
    IN  IF ~startDeep /\ ~endDeep THEN "Shallow"
        ELSE IF startDeep /\ endDeep THEN "Deep"
        ELSE IF ~startDeep /\ endDeep THEN "CrossingEnter"
        ELSE "CrossingLeave"

\* IntersectionPoint{} beside a non-nil error
NoPoint == [ok |-> FALSE, X |-> <<0, 1>>, Y |-> <<0, 1>>, Z |-> 0, T |-> <<0, 1>>]

\* mutant: t = 0 and t = 1 are accepted
CalculateIntersection_Closed(startX, startY, startZ, endX, endY, endZ, threshold) ==
    LET deltaZ == endZ - startZ
    IN  IF Abs(deltaZ) * TolPerUnit < 1
        THEN NoPoint
        ELSE LET t == Rat(threshold - startZ, deltaZ)
             IN  IF t[1] < 0 \/ t[1] > t[2]
                 THEN NoPoint
                 ELSE [ok |-> TRUE,
                       X  |-> Lerp(startX, endX, t),
                       Y  |-> Lerp(startY, endY, t),
                       Z  |-> threshold,
                       T  |-> t]

CalculateIntersection(startX, startY, startZ, endX, endY, endZ, threshold) ==
    LET deltaZ == endZ - startZ
    IN  IF Abs(deltaZ) * TolPerUnit < 1
        THEN NoPoint
        ELSE LET t == Rat(threshold - startZ, deltaZ)
             IN  IF t[1] <= 0 \/ t[1] >= t[2]
                 THEN NoPoint
                 ELSE [ok |-> TRUE,
                       X  |-> Lerp(startX, endX, t),
                       Y  |-> Lerp(startY, endY, t),
                       Z  |-> threshold,
                       T  |-> t]

\* mutant: a crossing move is never preserved whole
ShouldPreserve_NeverCrossing(classification, strat) ==
    CASE classification = "Shallow" -> FALSE
      [] classification = "Deep" -> TRUE
      [] classification = "NonCutting" -> TRUE
      [] classification \in {"CrossingEnter", "CrossingLeave"} -> FALSE
      [] OTHER -> TRUE

\* mutant: CrossingLeave is missing from the crossing case and falls to the default
ShouldPreserve_LeaveDefault(classification, strat) ==
    CASE classification = "Shallow" -> FALSE
      [] classification = "Deep" -> TRUE
      [] classification = "NonCutting" -> TRUE
      [] classification = "CrossingEnter" -> strat = "Conservative"
      [] OTHER -> TRUE

ShouldPreserve(classification, strat) ==
    CASE classification = "Shallow" -> FALSE
      [] classification = "Deep" -> TRUE
      [] classification = "NonCutting" -> TRUE
      [] classification \in {"CrossingEnter", "CrossingLeave"} -> strat = "Conservative"
      [] OTHER -> TRUE

\* mutant: the feed rate is appended for rapid moves too
WithFeed_AnyMove(codes, gValue, feedRate) ==
    Line(IF feedRate > 0 THEN Append(codes, Code("F", feedRate)) ELSE codes)

\* "line1 = gcode.Line{Codes: codes}; if gValue == 1 && feedRate > 0 { append F }"
WithFeed(codes, gValue, feedRate) ==
    Line(IF gValue = 1 /\ feedRate > 0 THEN Append(codes, Code("F", feedRate)) ELSE codes)

\* "codes := {G}; if hasX { append X } ... if hasB { append B }"
AxisCodes(line, gValue, x, y, z, b) ==
    <<Code("G", gValue)>>
      \o (IF HasLetter(line, "X") THEN <<Code("X", x)>> ELSE <<>>)
      \o (IF HasLetter(line, "Y") THEN <<Code("Y", y)>> ELSE <<>>)
      \o (IF HasLetter(line, "Z") THEN <<Code("Z", z)>> ELSE <<>>)
      \o (IF HasLetter(line, "B") THEN <<Code("B", b)>> ELSE <<>>)

\* the G value SplitMove detects: the last G0/G1 code, -1 when there is none
GValue(line) ==
    LET moves == {i \in DOMAIN line.Codes :
                    line.Codes[i].Letter = "G" /\ line.Codes[i].Value \in {0, 1}}
    IN  IF moves = {} THEN -1
        ELSE line.Codes[CHOOSE i \in moves : \A j \in moves : j <= i].Value

\* the first half of SplitMove with startB: the move type, and the two
\* candidate lines, which carry the axes present in the line
SplitSegments(line, intersection, startX, startY, startZ, startB) ==
    LET feedRate == LetterValue(line, "F", 0)
        gValue   == GValue(line)
        endX == LetterValue(line, "X", startX)
        endY == LetterValue(line, "Y", startY)
        endZ == LetterValue(line, "Z", startZ)
        endB == LetterValue(line, "B", startB)
        intersectionB == Lerp(startB, endB, intersection.T)
    IN  [gValue |-> gValue,
         toIntersection |->
            WithFeed(AxisCodes(line, gValue,
                               Round4(intersection.X), Round4(intersection.Y),
                               Round4(<<intersection.Z, 1>>), Round4(intersectionB)),
                     gValue, feedRate),
         toEnd |-> WithFeed(AxisCodes(line, gValue, endX, endY, endZ, endB),
                            gValue, feedRate)]

\* mutant: the shallow remainder of a CrossingLeave move is returned too
SplitMove_KeepRemainder(line, intersection, classification, startX, startY, startZ, startB) ==
    LET s == SplitSegments(line, intersection, startX, startY, startZ, startB)
    IN  IF s.gValue # 0 /\ s.gValue # 1
        THEN [err |-> TRUE, line1 |-> EmptyLine, line2 |-> EmptyLine]
        ELSE IF classification \in {"CrossingEnter", "CrossingLeave"}
        THEN [err |-> FALSE, line1 |-> s.toIntersection, line2 |-> s.toEnd]
        ELSE [err |-> FALSE, line1 |-> EmptyLine, line2 |-> EmptyLine]

\* SplitMove with startB
SplitMove(line, intersection, classification, startX, startY, startZ, startB) ==
    LET s == SplitSegments(line, intersection, startX, startY, startZ, startB)
    IN  IF s.gValue # 0 /\ s.gValue # 1
        THEN [err |-> TRUE, line1 |-> EmptyLine, line2 |-> EmptyLine]
        ELSE IF classification = "CrossingEnter"
        THEN [err |-> FALSE, line1 |-> s.toIntersection, line2 |-> s.toEnd]
        ELSE IF classification = "CrossingLeave"
        THEN [err |-> FALSE, line1 |-> s.toIntersection, line2 |-> EmptyLine]
        ELSE [err |-> FALSE, line1 |-> EmptyLine, line2 |-> EmptyLine]

\* SplitMove without startB: the split always carries X, Y and Z
SplitMove3Axis(line, intersection, classification, startX, startY, startZ) ==
    LET feedRate == LetterValue(line, "F", 0)
        gValue   == GValue(line)
        endX == LetterValue(line, "X", startX)
        endY == LetterValue(line, "Y", startY)
        endZ == LetterValue(line, "Z", startZ)
        toIntersection ==
            WithFeed(<<Code("G", gValue),
                       Code("X", Round4(intersection.X)),
                       Code("Y", Round4(intersection.Y)),
                       Code("Z", Round4(<<intersection.Z, 1>>))>>,
                     gValue, feedRate)
        toEnd == WithFeed(<<Code("G", gValue), Code("X", endX),
                            Code("Y", endY), Code("Z", endZ)>>,
                          gValue, feedRate)
    IN  IF gValue # 0 /\ gValue # 1
        THEN [err |-> TRUE, line1 |-> EmptyLine, line2 |-> EmptyLine]
        ELSE IF classification = "CrossingEnter"
        THEN [err |-> FALSE, line1 |-> toIntersection, line2 |-> toEnd]
        ELSE IF classification = "CrossingLeave"
        THEN [err |-> FALSE, line1 |-> toIntersection, line2 |-> EmptyLine]
        ELSE [err |-> FALSE, line1 |-> EmptyLine, line2 |-> EmptyLine]

----------------------------------------------------------------------------
\* package parser

\* ResetState that forgets the header and starts the depth at 0
ResetState_ZeroDepth(headerMaxZ) == [X |-> 0, Y |-> 0, Z |-> 0, B |-> 0, F |-> 0]

\* Parser.ResetState: Z from the header's max_z, everything else 0
ResetState(headerMaxZ) == [X |-> 0, Y |-> 0, Z |-> headerMaxZ, B |-> 0, F |-> 0]

\* UpdateState that zeroes the fields whose letter the line does not carry
UpdateState_ForgetAbsent(st, line) ==
    [X |-> LetterValue(line, "X", 0),
     Y |-> LetterValue(line, "Y", 0),
     Z |-> LetterValue(line, "Z", 0),
     B |-> LetterValue(line, "B", 0),
     F |-> LetterValue(line, "F", 0)]

\* Parser.UpdateState: the letters present in the line overwrite their fields
UpdateState(st, line) ==
    [X |-> LetterValue(line, "X", st.X),
     Y |-> LetterValue(line, "Y", st.Y),
     Z |-> LetterValue(line, "Z", st.Z),
     B |-> LetterValue(line, "B", st.B),
     F |-> LetterValue(line, "F", st.F)]

\* the state after UpdateState on lines i, i+1, ... in order
RECURSIVE UpdateStateAll(_, _, _)
UpdateStateAll(st, lines, i) ==
    IF i > Len(lines) THEN st
    ELSE UpdateStateAll(UpdateState(st, lines[i]), lines, i + 1)

\* the loop of ScanMinZ without the branch that lowers the minimum: the
\* depth of the first move is returned
RECURSIVE ScanLoop_FirstMove(_, _, _, _, _)
ScanLoop_FirstMove(lines, i, st, found, mz) ==
    IF i > Len(lines) THEN [found |-> found, minZ |-> mz]
    ELSE LET st2    == UpdateState(st, lines[i])
             isMove == HasG(lines[i], 0) \/ HasG(lines[i], 1)
         IN  IF ~isMove THEN ScanLoop_FirstMove(lines, i + 1, st2, found, mz)
             ELSE IF ~found THEN ScanLoop_FirstMove(lines, i + 1, st2, TRUE, st2.Z)
             ELSE ScanLoop_FirstMove(lines, i + 1, st2, TRUE, mz)

\* the loop of ScanMinZ from line i on, with the loop's locals
RECURSIVE ScanLoop(_, _, _, _, _)
ScanLoop(lines, i, st, found, mz) ==
    IF i > Len(lines) THEN [found |-> found, minZ |-> mz]
    ELSE LET st2    == UpdateState(st, lines[i])
             isMove == HasG(lines[i], 0) \/ HasG(lines[i], 1)
         IN  IF ~isMove THEN ScanLoop(lines, i + 1, st2, found, mz)
             ELSE IF ~found THEN ScanLoop(lines, i + 1, st2, TRUE, st2.Z)
             ELSE IF st2.Z < mz THEN ScanLoop(lines, i + 1, st2, TRUE, st2.Z)
             ELSE ScanLoop(lines, i + 1, st2, TRUE, mz)

\* ScanMinZ that returns its default 0.0 without an error when no move is found
ScanMinZ_DefaultZero(lines, headerMaxZ) ==
    [found |-> TRUE,
     minZ  |-> ScanLoop(lines, 1, ResetState(headerMaxZ), FALSE, 0).minZ]

\* Parser.ScanMinZ: [found, minZ]; found = FALSE is the error return
ScanMinZ(lines, headerMaxZ) == ScanLoop(lines, 1, ResetState(headerMaxZ), FALSE, 0)

----------------------------------------------------------------------------
\* package gcode of the streaming filter: commands, metadata, writer

\* A line of input text is [Bad, Codes, Comment, HdrMin, HdrMax]: Bad when
\* the gcode library cannot parse it, else its codes and its comment; a
\* header comment carries the values it gives for MIN_Z: and MAX_Z:, each
\* <<>> or <<value>>.
Text(line) ==
    [Bad |-> FALSE, Codes |-> line.Codes, Comment |-> line.Comment,
     HdrMin |-> <<>>, HdrMax |-> <<>>]
BadText == [Text(EmptyLine) EXCEPT !.Bad = TRUE]
HeaderText(comment, min, max) ==
    [Bad |-> FALSE, Codes |-> <<>>, Comment |-> comment, HdrMin |-> min, HdrMax |-> max]

\* the lines ExtractMetadata looks at
HeaderScanLines == 50

\* the value of the last header line, among the first HeaderScanLines, that
\* gives the field; 0 when there is none
HeaderField(input, f) ==
    LET c == {i \in DOMAIN input : i <= HeaderScanLines /\ input[i][f] # <<>>}
    IN  IF c = {} THEN 0 ELSE input[CHOOSE i \in c : \A j \in c : j <= i][f][1]
HasHeaderField(input, f) ==
    \E i \in DOMAIN input : i <= HeaderScanLines /\ input[i][f] # <<>>

\* gcode.ExtractMetadata (Is4Axis and the message are left out)
ExtractMetadata(input) ==
    [MinZ |-> HeaderField(input, "HdrMin"),
     MaxZ |-> HeaderField(input, "HdrMax"),
     ZReference |->
        IF HasHeaderField(input, "HdrMin") /\ HasHeaderField(input, "HdrMax")
        THEN "ZRefMetadata"
        ELSE IF HasHeaderField(input, "HdrMin") \/ HasHeaderField(input, "HdrMax")
        THEN "ZRefMachineOrigin"
        ELSE "ZRefSurface"]

\* Metadata.GetZReference
GetZReference(m) == IF m.ZReference = "ZRefMetadata" THEN m.MaxZ ELSE 0

\* IsShallowDepth that counts a depth on the threshold as shallow
IsShallowDepth_Inclusive(m, z, allow) == z >= GetZReference(m) - allow

\* Metadata.IsShallowDepth
IsShallowDepth(m, z, allow) ==
    LET reference == GetZReference(m)
        threshold == reference - allow
    IN  z > threshold

\* the zero value Command{}
NoParams == [l \in {} |-> 0]
NoCommand == [Letter |-> "", Value |-> 0, Params |-> NoParams, Comment |-> ""]

\* gcode.ParseCommand: [err, cmd].  The last G, M or T code of the line is
\* the command, every other code is a parameter, the last one of a letter
\* winning.
ParseCommand(input) ==
    IF input.Bad THEN [err |-> TRUE, cmd |-> NoCommand]
    ELSE IF input.Codes = <<>> /\ input.Comment = ""
    THEN [err |-> FALSE, cmd |-> NoCommand]
    ELSE IF input.Codes = <<>>
    THEN [err |-> FALSE, cmd |-> [NoCommand EXCEPT !.Comment = input.Comment]]
    ELSE LET cs   == {i \in DOMAIN input.Codes : input.Codes[i].Letter \in {"G", "M", "T"}}
             last == CHOOSE i \in cs : \A j \in cs : j <= i
             ps   == {input.Codes[i].Letter : i \in DOMAIN input.Codes \ cs}
         IN  [err |-> FALSE,
              cmd |-> [Letter  |-> IF cs = {} THEN "" ELSE input.Codes[last].Letter,
                       Value   |-> IF cs = {} THEN 0 ELSE input.Codes[last].Value,
                       Params  |-> [l \in ps |-> LetterValue(input, l, 0)],
                       Comment |-> input.Comment]]

HasParam(c, param) == param \in DOMAIN c.Params

IsRapidMove(c) == c.Letter = "G" /\ c.Value = 0

\* IsCuttingMove that takes every G command with parameters for a cut
IsCuttingMove_AnyMotion(c) ==
    c.Letter = "G" /\ (HasParam(c, "F") \/ DOMAIN c.Params # {})

IsCuttingMove(c) ==
    IF c.Letter # "G" \/ c.Value # 1 THEN FALSE
    ELSE HasParam(c, "F") \/ DOMAIN c.Params # {}

IsMachineCode(c) == c.Letter = "M"

IsComment(c) == c.Comment # "" /\ c.Letter = ""

\* BufferedWriter.WriteLine that puts the line in front of what is written
WriteLine_Front(bw, line) ==
    [lines |-> <<line>> \o bw.lines, lineCount |-> bw.lineCount + 1]

\* BufferedWriter.WriteLine: lines is the text handed to the bufio.Writer,
\* which keeps its order through every flush
WriteLine(bw, line) ==
    [lines |-> Append(bw.lines, line), lineCount |-> bw.lineCount + 1]

NewBufferedWriter == [lines |-> <<>>, lineCount |-> 0]

----------------------------------------------------------------------------
\* package optimizer of the streaming filter

FilterStrategies == {"StrategySafe", "StrategyAllAxes", "StrategySplit", "StrategyAggressive"}

ShouldFilterByDepth(z, allow, meta) == IsShallowDepth(meta, z, allow)

ShouldAlwaysPreserve(cmd) ==
    IF IsRapidMove(cmd) THEN TRUE
    ELSE IF IsMachineCode(cmd) THEN TRUE
    ELSE IF IsComment(cmd) THEN TRUE
    ELSE IF cmd.Letter = "" /\ cmd.Comment = "" THEN TRUE
    ELSE FALSE

\* applyStrategy that looks for the linear axes X and Y only
applyStrategy_LinearOnly(cmd, strat) ==
    LET isMultiAxis == \E param \in DOMAIN cmd.Params : param \in {"X", "Y"}
    IN  IF strat \in {"StrategyAllAxes", "StrategyAggressive"} THEN TRUE
        ELSE ~isMultiAxis

\* applyStrategy with Split filtering on depth alone
applyStrategy_SplitAllAxes(cmd, strat) ==
    LET isMultiAxis == \E param \in DOMAIN cmd.Params : param \in {"X", "Y", "A", "B"}
    IN  IF strat \in {"StrategyAllAxes", "StrategySplit", "StrategyAggressive"} THEN TRUE
        ELSE ~isMultiAxis

applyStrategy(cmd, strat) ==
    LET isMultiAxis == \E param \in DOMAIN cmd.Params : param \in {"X", "Y", "A", "B"}
    IN  CASE strat = "StrategySafe"       -> ~isMultiAxis
          [] strat = "StrategyAllAxes"    -> TRUE
          [] strat = "StrategySplit"      -> ~isMultiAxis
          [] strat = "StrategyAggressive" -> TRUE
          [] OTHER                        -> ~isMultiAxis

\* optimizer.NewStatistics.  EstimatedTimeSaved is the sum of the durations
\* added to it, kept as the sequence of its terms: a term [d2, feed] is the
\* duration sqrt(d2) / feed minutes.
NewStatistics == [TotalLines |-> 0, RemovedLines |-> 0, EstimatedTimeSaved |-> <<>>]

\* Statistics.KeptLines
KeptLines(st) == st.TotalLines - st.RemovedLines

\* the feed rate CalculateTimeSaved falls back on
DefaultFeedRate == 1000

\* optimizer.CalculateTimeSaved: the term sqrt(dx^2 + dy^2 + dz^2) / feedRate;
\* the truncation of the duration to nanoseconds is left out
CalculateTimeSaved(x1, y1, z1, x2, y2, z2, feedRate) ==
    LET dx == x2 - x1
        dy == y2 - y1
        dz == z2 - z1
    IN  [d2   |-> dx * dx + dy * dy + dz * dz,
         feed |-> IF feedRate <= 0 THEN DefaultFeedRate ELSE feedRate]

ShouldFilterMove(cmd, allow, meta, strat) ==
    IF ShouldAlwaysPreserve(cmd) THEN FALSE
    ELSE IF ~IsCuttingMove(cmd) THEN FALSE
    ELSE IF ~HasParam(cmd, "Z") THEN FALSE
    ELSE IF ~ShouldFilterByDepth(cmd.Params["Z"], allow, meta) THEN FALSE
    ELSE applyStrategy(cmd, strat)

----------------------------------------------------------------------------
\* package cli and the strategy names: the configuration of a run

\* A string is the sequence of its characters.
Uppers == <<"A", "B", "C", "D", "E", "F", "G", "H", "I", "J", "K", "L", "M", "N", "O", "P", "Q", "R", "S", "T", "U", "V", "W", "X", "Y", "Z">>
Lowers == <<"a", "b", "c", "d", "e", "f", "g", "h", "i", "j", "k", "l", "m", "n", "o", "p", "q", "r", "s", "t", "u", "v", "w", "x", "y", "z">>

\* strings.ToLower
ToLowerChar(ch) ==
    IF \E i \in DOMAIN Uppers : Uppers[i] = ch
    THEN Lowers[CHOOSE i \in DOMAIN Uppers : Uppers[i] = ch]
    ELSE ch
ToLower(str) == [i \in DOMAIN str |-> ToLowerChar(str[i])]

\* strings.TrimSpace, for the space character
RECURSIVE TrimLeft(_)
TrimLeft(str) == IF str # <<>> /\ Head(str) = " " THEN TrimLeft(Tail(str)) ELSE str
RECURSIVE TrimRight(_)
TrimRight(str) ==
    IF str # <<>> /\ str[Len(str)] = " " THEN TrimRight(SubSeq(str, 1, Len(str) - 1))
    ELSE str
TrimSpace(str) == TrimRight(TrimLeft(str))

StrSafe == <<"s", "a", "f", "e">>
StrAllAxes == <<"a", "l", "l", "-", "a", "x", "e", "s">>
StrSplit == <<"s", "p", "l", "i", "t">>
StrAggressive == <<"a", "g", "g", "r", "e", "s", "s", "i", "v", "e">>

\* An error is [type, Strategy, valid]: its Go type, the strategy string it
\* quotes and the strategy names its message lists.

\* optimizer.ParseFilterStrategy: [err, strategy, error]
ParseFilterStrategy(str) ==
    LET t == ToLower(TrimSpace(str))
    IN  CASE t = StrSafe       -> [err |-> FALSE, strategy |-> "StrategySafe"]
          [] t = StrAllAxes    -> [err |-> FALSE, strategy |-> "StrategyAllAxes"]
          [] t = StrSplit      -> [err |-> FALSE, strategy |-> "StrategySplit"]
          [] t = StrAggressive -> [err |-> FALSE, strategy |-> "StrategyAggressive"]
          [] OTHER ->
                [err |-> TRUE, strategy |-> "StrategySafe",
                 error |-> [type |-> "errorString", Strategy |-> str,
                            valid |-> <<StrSafe, StrAllAxes, StrSplit, StrAggressive>>]]

\* &cli.InvalidStrategyError{Strategy: str}: "invalid strategy: " + str
InvalidStrategyError(str) == [type |-> "InvalidStrategyError", Strategy |-> str, valid |-> <<>>]

\* any other error of ParseArgs, ValidateArgs or run
OtherError == [type |-> "errorString", Strategy |-> <<>>, valid |-> <<>>]

\* cli.ParseArgs on a command line with the --strategy flag given or not,
\* the positional arguments and the allowance argument a number or not:
\* [err, error, args]
ParseArgs(args) ==
    LET strat == IF args.strategy = <<>> THEN StrSafe ELSE args.strategy[1]
    IN  IF args.positional # 3 THEN [err |-> TRUE, error |-> OtherError]
        ELSE IF args.allowance = <<>> THEN [err |-> TRUE, error |-> OtherError]
        ELSE IF args.allowance[1] < 0 THEN [err |-> TRUE, error |-> OtherError]
        ELSE IF strat \notin {StrSafe, StrAllAxes, StrSplit, StrAggressive}
        THEN [err |-> TRUE, error |-> InvalidStrategyError(strat)]
        ELSE [err |-> FALSE,
              args |-> [Allowance |-> args.allowance[1], Strategy |-> strat,
                        Force |-> args.force]]

\* cli.PrintError: the exit code
PrintError(error) == IF error.type = "InvalidStrategyError" THEN 2 ELSE 1

----------------------------------------------------------------------------
\* Inputs of the model

\* longest file (number of lines) the pipeline is run on
MaxLines == 3

\* an optional word is <<>> (absent) or <<value>>
NoValue == <<>>
Opt(S) == {NoValue} \cup {<<v>> : v \in S}

\* a motion or other G line with the given optional words, in the usual order
MkLine(g, x, y, z, b, f) ==
    Line(<<Code("G", g)>>
         \o (IF x = NoValue THEN <<>> ELSE <<Code("X", x[1])>>)
         \o (IF y = NoValue THEN <<>> ELSE <<Code("Y", y[1])>>)
         \o (IF z = NoValue THEN <<>> ELSE <<Code("Z", z[1])>>)
         \o (IF b = NoValue THEN <<>> ELSE <<Code("B", b[1])>>)
         \o (IF f = NoValue THEN <<>> ELSE <<Code("F", f[1])>>))

\* depths, in units of 1e-5 mm; -35 is off the four-decimal grid
Depths == {-40, -35, -30, -10, 0}
Thresholds == {-35, -30}

GeomLines ==
    {MkLine(g, x, y, z, b, f) :
        g \in {0, 1, 2}, x \in Opt({25}), y \in Opt({30}),
        z \in Opt(Depths), b \in Opt({15}), f \in Opt({0, 1000})}

GeomStarts ==
    {[X |-> 0, Y |-> 10, Z |-> z, B |-> 0, F |-> f] : z \in Depths, f \in {0, 800}}

NoSplit == [err |-> FALSE, line1 |-> EmptyLine, line2 |-> EmptyLine]
NoDecision == [cls |-> "none", strategy |-> "none", preserve |-> FALSE]

\* lines a pipeline file is made of: a header comment, a spindle command, a
\* rapid and cutting moves with and without a depth word
CommentLine == [Codes |-> <<>>, Comment |-> "header"]
FileLines ==
    { CommentLine,
      Line(<<Code("M", 3)>>),
      MkLine(0, NoValue, NoValue, <<0>>, NoValue, NoValue),
      MkLine(1, NoValue, NoValue, <<-10>>, NoValue, <<1000>>),
      MkLine(1, <<25>>, NoValue, <<-40>>, NoValue, NoValue),
      MkLine(1, <<25>>, NoValue, <<-30>>, NoValue, NoValue),
      MkLine(1, NoValue, <<30>>, NoValue, NoValue, NoValue) }

RECURSIVE SeqsUpTo(_, _)
SeqsUpTo(S, n) ==
    IF n = 0 THEN {<<>>}
    ELSE LET shorter == SeqsUpTo(S, n - 1)
         IN  shorter \cup {Append(q, e) : q \in shorter, e \in S}

Files == SeqsUpTo(FileLines, MaxLines) \ {<<>>}
HeaderMaxZs == {0, -10}
Allowances == {0, 5, 10}

\* values of --strategy: the four names, in other letter cases, with a
\* leading space, and strings that are no name
StrategyArgs ==
    { StrSafe, <<"S", "A", "F", "E">>, <<"S", "a", "f", "e">>, <<" ", "s", "a", "f", "e">>,
      StrAllAxes, <<"A", "l", "l", "-", "A", "x", "e", "s">>,
      StrSplit, <<"S", "P", "L", "I", "T">>,
      StrAggressive, <<"A", "g", "g", "r", "e", "s", "s", "i", "v", "e">>,
      <<"f", "a", "s", "t">>, <<"s", "a", "f">>, <<"a", "l", "l", "_", "a", "x", "e", "s">>, <<>> }

\* command lines: --strategy given or not, --force or not, two or three
\* positional arguments, the allowance 0, 20, -5 or not a number
CommandLines ==
    [strategy : Opt(StrategyArgs), force : BOOLEAN, positional : {2, 3},
     allowance : Opt({0, 20, -5})]

Environments == [inputExists : BOOLEAN, outputDirExists : BOOLEAN, outputExists : BOOLEAN]

NoArgs == [Allowance |-> 0, Strategy |-> <<>>, Force |-> FALSE]

\* longest input (number of lines) the streaming filter is run on
MaxStreamLines == 3

\* the G, M and axis words of a line of text, in the given order
Word(l, v) == <<Code(l, v)>>

\* lines an input of the streaming filter is made of: a blank line, header
\* comments with both bounds and with max_z only, a line the library
\* rejects, a spindle command, a rapid, an arc, and G1 moves: depth only,
\* with a linear axis, with a rotary axis, and without a depth word
StreamLines ==
    { Text(EmptyLine),
      HeaderText(";MIN_Z MAX_Z", <<-10>>, <<-10>>),
      HeaderText(";MAX_Z", <<>>, <<-10>>),
      BadText,
      Text(Line(Word("M", 3))),
      Text(Line(Word("G", 0) \o Word("X", 25) \o Word("Z", 0))),
      Text(Line(Word("G", 2) \o Word("X", 25) \o Word("Z", -10))),
      Text(Line(Word("G", 1) \o Word("Z", -10) \o Word("F", 800))),
      Text(Line(Word("G", 1) \o Word("X", 25) \o Word("Z", -10))),
      Text(Line(Word("G", 1) \o Word("B", 15) \o Word("Z", -10))),
      Text(Line(Word("G", 1) \o Word("Y", 30))) }

StreamInputs == SeqsUpTo(StreamLines, MaxStreamLines)
StreamAllowances == {0, 20}

----------------------------------------------------------------------------
\* The specification of one call chain of the optimizer's functions

GeomIdle ==
    /\ g_pc = "idle"
    /\ g_threshold = 0
    /\ g_start = ResetState(0)
    /\ g_line = EmptyLine
    /\ g_cls = "none"
    /\ g_ipt = NoPoint
    /\ g_split = NoSplit
    /\ g_split3 = NoSplit
    /\ g_decision = NoDecision

PipeIdle ==
    /\ pc = "idle"
    /\ file = <<>>
    /\ maxZ = 0
    /\ allowance = 0
    /\ strategy = "Conservative"
    /\ state = ResetState(0)
    /\ minZ = 0
    /\ opt = NewOptimizer(0, 0, "Conservative")
    /\ idx = 0
    /\ output = <<>>
    /\ linesProcessed = 0
    /\ linesRemoved = 0
    /\ linesPreserved = 0
    /\ linesSplit = 0
    /\ result = [set |-> FALSE]
    /\ log = <<>>

StreamIdle ==
    /\ s_pc = "idle"
    /\ s_input = <<>>
    /\ s_metadata = ExtractMetadata(<<>>)
    /\ s_allowance = 0
    /\ s_strategy = "StrategySafe"
    /\ s_stats = NewStatistics
    /\ s_last = [X |-> 0, Y |-> 0, Z |-> 0]
    /\ s_currentFeedRate = 0
    /\ s_feedRateWarned = FALSE
    /\ s_warnings = <<>>
    /\ s_writer = NewBufferedWriter
    /\ s_log = <<>>

ConfigIdle ==
    /\ c_pc = "idle"
    /\ c_args = [strategy |-> <<>>, force |-> FALSE, positional |-> 3, allowance |-> <<0>>]
    /\ c_env = [inputExists |-> TRUE, outputDirExists |-> TRUE, outputExists |-> FALSE]
    /\ c_parsed = NoArgs
    /\ c_strategy = <<>>
    /\ c_stderr = <<>>
    /\ c_exit = <<>>

GeomInit ==
    /\ g_pc = "input"
    /\ g_threshold \in Thresholds
    /\ g_start \in GeomStarts
    /\ g_line \in GeomLines
    /\ g_cls = "none"
    /\ g_ipt = NoPoint
    /\ g_split = NoSplit
    /\ g_split3 = NoSplit
    /\ g_decision = NoDecision
    /\ PipeIdle
    /\ StreamIdle
    /\ ConfigIdle

\* the end point of the line: the modal state after Parser.UpdateState
GeomEnd == UpdateState(g_start, g_line)

\* classification := opt.ClassifyMove(startZ, endZ)
GClassify ==
    /\ g_pc = "input"
    /\ g_cls' = ClassifyMove(g_start.Z, GeomEnd.Z, g_threshold)
    /\ g_pc' = "classified"
    /\ UNCHANGED <<g_threshold, g_start, g_line, g_ipt, g_split, g_split3, g_decision>>
    /\ UNCHANGED <<pipeVars, streamVars, configVars>>

\* intersection, err := opt.CalculateIntersection(start..., end...)
GIntersect ==
    /\ g_pc = "classified"
    /\ g_ipt' = CalculateIntersection(g_start.X, g_start.Y, g_start.Z,
                                      GeomEnd.X, GeomEnd.Y, GeomEnd.Z, g_threshold)
    /\ g_pc' = "intersected"
    /\ UNCHANGED <<g_threshold, g_start, g_line, g_cls, g_split, g_split3, g_decision>>
    /\ UNCHANGED <<pipeVars, streamVars, configVars>>

\* line1, line2, err := opt.SplitMove(line, intersection, classification, start...)
\* for a crossing move whose intersection was found
GSplit ==
    /\ g_pc = "intersected"
    /\ g_cls \in {"CrossingEnter", "CrossingLeave"}
    /\ g_ipt.ok
    /\ g_split' = SplitMove(g_line, g_ipt, g_cls,
                            g_start.X, g_start.Y, g_start.Z, g_start.B)
    /\ g_split3' = SplitMove3Axis(g_line, g_ipt, g_cls,
                                  g_start.X, g_start.Y, g_start.Z)
    /\ g_pc' = "split"
    /\ UNCHANGED <<g_threshold, g_start, g_line, g_cls, g_ipt, g_decision>>
    /\ UNCHANGED <<pipeVars, streamVars, configVars>>

\* opt.ShouldPreserve(classification) for any classification and strategy
GDecide ==
    /\ g_pc = "input"
    /\ \E c \in Classifications, s \in Strategies :
          g_decision' = [cls |-> c, strategy |-> s, preserve |-> ShouldPreserve(c, s)]
    /\ g_pc' = "decided"
    /\ UNCHANGED <<g_threshold, g_start, g_line, g_cls, g_ipt, g_split, g_split3>>
    /\ UNCHANGED <<pipeVars, streamVars, configVars>>

GeomNext == GClassify \/ GIntersect \/ GSplit \/ GDecide

SpecGeom == GeomInit /\ [][GeomNext]_vars

----------------------------------------------------------------------------
\* The specification of the two-pass pipeline, optimizeGCodeFile

\* parser.NewParser: the file is parsed, the header read, the state reset
Init ==
    /\ pc = "start"
    /\ file \in Files
    /\ maxZ \in HeaderMaxZs
    /\ allowance \in Allowances
    /\ strategy \in Strategies
    /\ state = ResetState(maxZ)
    /\ minZ = 0
    /\ opt = NewOptimizer(0, 0, "Conservative")
    /\ idx = 0
    /\ output = <<>>
    /\ linesProcessed = 0
    /\ linesRemoved = 0
    /\ linesPreserved = 0
    /\ linesSplit = 0
    /\ result = [set |-> FALSE]
    /\ log = <<>>
    /\ GeomIdle
    /\ StreamIdle
    /\ ConfigIdle

\* minZ, err := p.ScanMinZ(), found a move: the state is reset behind it
ScanFound ==
    /\ pc = "start"
    /\ ScanMinZ(file, maxZ).found
    /\ minZ' = ScanMinZ(file, maxZ).minZ
    /\ state' = ResetState(maxZ)
    /\ pc' = "scanned"
    /\ UNCHANGED <<file, maxZ, allowance, strategy, opt, idx, output, linesProcessed,
                   linesRemoved, linesPreserved, linesSplit, result, log>>
    /\ UNCHANGED <<geomVars, streamVars, configVars>>

\* minZ, err := p.ScanMinZ(), no move in the file: optimizeGCodeFile returns
\* the error; ScanMinZ returns before its final reset
ScanFailed ==
    /\ pc = "start"
    /\ ~ScanMinZ(file, maxZ).found
    /\ state' = UpdateStateAll(ResetState(maxZ), file, 1)
    /\ pc' = "failed"
    /\ UNCHANGED <<file, maxZ, allowance, strategy, minZ, opt, idx, output,
                   linesProcessed, linesRemoved, linesPreserved, linesSplit, result, log>>
    /\ UNCHANGED <<geomVars, streamVars, configVars>>

\* opt := optimizer.NewOptimizer(...), the output file and writer are
\* created, the counters zeroed, p.ResetState()
BeginPass2 ==
    /\ pc = "scanned"
    /\ opt' = NewOptimizer(minZ, allowance, strategy)
    /\ output' = <<>>
    /\ linesProcessed' = 0
    /\ linesRemoved' = 0
    /\ linesPreserved' = 0
    /\ linesSplit' = 0
    /\ state' = ResetState(maxZ)
    /\ pc' = "pass2"
    /\ UNCHANGED <<file, maxZ, allowance, strategy, minZ, idx, result, log>>
    /\ UNCHANGED <<geomVars, streamVars, configVars>>

\* the locals of one iteration of the pass-2 loop
CurLine == file[idx + 1]
CurStartZ == state.Z
CurEndZ == UpdateState(state, CurLine).Z
\* a classification against the minimum of the lines read so far, as if the
\* scan ran along with pass 2
CurClass_Interleaved ==
    ClassifyMove(CurStartZ, CurEndZ,
                 ScanMinZ(SubSeq(file, 1, idx + 1), maxZ).minZ + allowance)
CurClass == ClassifyMove(CurStartZ, CurEndZ, opt.threshold)

LogEntry(isG1, cls, written) ==
    [line |-> CurLine, isG1 |-> isG1, startZ |-> CurStartZ, endZ |-> CurEndZ,
     cls |-> cls, written |-> written, threshold |-> opt.threshold]

\* one iteration, the line is not a G1 move: written as it is
Pass2NonG1 ==
    /\ pc = "pass2"
    /\ idx < Len(file)
    /\ ~HasG(CurLine, 1)
    /\ linesProcessed' = linesProcessed + 1
    /\ state' = UpdateState(state, CurLine)
    /\ output' = Append(output, CurLine)
    /\ linesPreserved' = linesPreserved + 1
    /\ idx' = idx + 1
    /\ log' = Append(log, LogEntry(FALSE, "none", <<CurLine>>))
    /\ UNCHANGED <<pc, file, maxZ, allowance, strategy, minZ, opt, linesRemoved,
                   linesSplit, result>>
    /\ UNCHANGED <<geomVars, streamVars, configVars>>

\* one iteration, a G1 move that ShouldPreserve keeps: written as it is
Pass2Preserve ==
    /\ pc = "pass2"
    /\ idx < Len(file)
    /\ HasG(CurLine, 1)
    /\ ShouldPreserve(CurClass, opt.strategy)
    /\ linesProcessed' = linesProcessed + 1
    /\ state' = UpdateState(state, CurLine)
    /\ output' = Append(output, CurLine)
    /\ linesPreserved' = linesPreserved + 1
    /\ idx' = idx + 1
    /\ log' = Append(log, LogEntry(TRUE, CurClass, <<CurLine>>))
    /\ UNCHANGED <<pc, file, maxZ, allowance, strategy, minZ, opt, linesRemoved,
                   linesSplit, result>>
    /\ UNCHANGED <<geomVars, streamVars, configVars>>

\* one iteration, a G1 move that ShouldPreserve does not keep: nothing is
\* written, the move is counted as removed
Pass2Remove ==
    /\ pc = "pass2"
    /\ idx < Len(file)
    /\ HasG(CurLine, 1)
    /\ ~ShouldPreserve(CurClass, opt.strategy)
    /\ linesProcessed' = linesProcessed + 1
    /\ state' = UpdateState(state, CurLine)
    /\ linesRemoved' = linesRemoved + 1
    /\ idx' = idx + 1
    /\ log' = Append(log, LogEntry(TRUE, CurClass, <<>>))
    /\ UNCHANGED <<pc, file, maxZ, allowance, strategy, minZ, opt, output,
                   linesPreserved, linesSplit, result>>
    /\ UNCHANGED <<geomVars, streamVars, configVars>>

\* the loop is over: result := progress.OptimizationResult{...}
Finish ==
    /\ pc = "pass2"
    /\ idx = Len(file)
    /\ result' = [set |-> TRUE,
                  TotalInputLines |-> linesProcessed,
                  LinesProcessed |-> linesProcessed,
                  LinesRemoved |-> linesRemoved,
                  LinesPreserved |-> linesPreserved,
                  LinesSplit |-> linesSplit,
                  MinZ |-> minZ,
                  Threshold |-> minZ + allowance,
                  TotalOutputLines |-> linesPreserved + linesSplit]
    /\ pc' = "done"
    /\ UNCHANGED <<file, maxZ, allowance, strategy, state, minZ, opt, idx, output,
                   linesProcessed, linesRemoved, linesPreserved, linesSplit, log>>
    /\ UNCHANGED <<geomVars, streamVars, configVars>>

Next ==
    \/ ScanFound
    \/ ScanFailed
    \/ BeginPass2
    \/ Pass2NonG1
    \/ Pass2Preserve
    \/ Pass2Remove
    \/ Finish

Spec == Init /\ [][Next]_vars

----------------------------------------------------------------------------
\* The specification of the streaming filter, run

\* the state at the head of the line loop: the strategy is parsed, the
\* metadata extracted from the input, the header warning printed, the
\* statistics, the writer and the loop's variables initialised
StreamInit ==
    /\ s_pc = "run"
    /\ s_input \in StreamInputs
    /\ s_metadata = ExtractMetadata(s_input)
    /\ s_allowance \in StreamAllowances
    /\ s_strategy \in FilterStrategies
    /\ s_stats = NewStatistics
    /\ s_last = [X |-> 0, Y |-> 0, Z |-> 0]
    /\ s_currentFeedRate = 0
    /\ s_feedRateWarned = FALSE
    /\ s_warnings = IF s_metadata.ZReference # "ZRefMetadata"
                    THEN <<[kind |-> "zref", line |-> 0]>> ELSE <<>>
    /\ s_writer = NewBufferedWriter
    /\ s_log = <<>>
    /\ GeomIdle
    /\ PipeIdle
    /\ ConfigIdle

\* the locals of one iteration of the line loop
SLine == s_input[s_stats.TotalLines + 1]
SParsed == ParseCommand(SLine)
SShouldFilter == ShouldFilterMove(SParsed.cmd, s_allowance, s_metadata, s_strategy)

\* the feed-rate warning is due: a G1, G2 or G3 with no feed rate seen yet
SFeedRateWarning ==
    /\ SParsed.cmd.Letter = "G"
    /\ SParsed.cmd.Value \in {1, 2, 3}
    /\ s_currentFeedRate = 0
    /\ ~s_feedRateWarned

SWarned ==
    IF SFeedRateWarning
    THEN Append(s_warnings, [kind |-> "feedrate", line |-> s_stats.TotalLines + 1])
    ELSE s_warnings

\* newX, newY, newZ of a filtered move, and the time it would have taken
SNew == [l \in {"X", "Y", "Z"} |->
            IF HasParam(SParsed.cmd, l) THEN SParsed.cmd.Params[l] ELSE s_last[l]]
STimeSaved == CalculateTimeSaved(s_last.X, s_last.Y, s_last.Z, SNew.X, SNew.Y, SNew.Z,
                                 s_currentFeedRate)

\* what the iteration saw and did: the line, the parse, the decision, the
\* line written, whether the feed-rate warning was printed, and for a
\* filtered move the term added to the time saved and whether
\* CalculateTimeSaved fell back on the default feed rate
SLogEntry(filtered, written) ==
    [line |-> SLine, err |-> SParsed.err, cmd |-> SParsed.cmd,
     filtered |-> filtered, written |-> written,
     warned |-> SFeedRateWarning,
     term |-> IF filtered THEN <<STimeSaved>> ELSE <<>>,
     defaulted |-> filtered /\ s_currentFeedRate <= 0]

\* the iteration of a malformed line without its warning
SSkipMalformed_Silent ==
    /\ s_pc = "run"
    /\ s_stats.TotalLines < Len(s_input)
    /\ SParsed.err
    /\ s_stats' = [s_stats EXCEPT !.TotalLines = @ + 1]
    /\ s_log' = Append(s_log, SLogEntry(FALSE, <<>>))
    /\ UNCHANGED <<s_pc, s_input, s_metadata, s_allowance, s_strategy, s_last,
                   s_currentFeedRate, s_feedRateWarned, s_warnings, s_writer>>
    /\ UNCHANGED <<geomVars, pipeVars, configVars>>

\* one iteration, ParseCommand fails: a warning, and on to the next line
SSkipMalformed ==
    /\ s_pc = "run"
    /\ s_stats.TotalLines < Len(s_input)
    /\ SParsed.err
    /\ s_stats' = [s_stats EXCEPT !.TotalLines = @ + 1]
    /\ s_warnings' = Append(s_warnings,
                            [kind |-> "malformed", line |-> s_stats.TotalLines + 1])
    /\ s_log' = Append(s_log, SLogEntry(FALSE, <<>>))
    /\ UNCHANGED <<s_pc, s_input, s_metadata, s_allowance, s_strategy, s_last,
                   s_currentFeedRate, s_feedRateWarned, s_writer>>
    /\ UNCHANGED <<geomVars, pipeVars, configVars>>

\* one iteration, ShouldFilterMove says remove: the line is counted and not
\* written; the position and the feed rate stay as they are
SFilter ==
    /\ s_pc = "run"
    /\ s_stats.TotalLines < Len(s_input)
    /\ ~SParsed.err
    /\ SShouldFilter
    /\ s_stats' = [s_stats EXCEPT !.TotalLines = @ + 1, !.RemovedLines = @ + 1,
                                  !.EstimatedTimeSaved = Append(@, STimeSaved)]
    /\ s_warnings' = SWarned
    /\ s_feedRateWarned' = (s_feedRateWarned \/ SFeedRateWarning)
    /\ s_log' = Append(s_log, SLogEntry(TRUE, <<>>))
    /\ UNCHANGED <<s_pc, s_input, s_metadata, s_allowance, s_strategy, s_last,
                   s_currentFeedRate, s_writer>>
    /\ UNCHANGED <<geomVars, pipeVars, configVars>>

\* one iteration, the line is kept: position and feed rate are updated from
\* its parameters and the text of the line is written
SKeep ==
    /\ s_pc = "run"
    /\ s_stats.TotalLines < Len(s_input)
    /\ ~SParsed.err
    /\ ~SShouldFilter
    /\ s_stats' = [s_stats EXCEPT !.TotalLines = @ + 1]
    /\ s_warnings' = SWarned
    /\ s_feedRateWarned' = (s_feedRateWarned \/ SFeedRateWarning)
    /\ s_last' = [l \in {"X", "Y", "Z"} |->
                    IF HasParam(SParsed.cmd, l) THEN SParsed.cmd.Params[l] ELSE s_last[l]]
    /\ s_currentFeedRate' = IF HasParam(SParsed.cmd, "F") THEN SParsed.cmd.Params["F"]
                            ELSE s_currentFeedRate
    /\ s_writer' = WriteLine(s_writer, SLine)
    /\ s_log' = Append(s_log, SLogEntry(FALSE, <<SLine>>))
    /\ UNCHANGED <<s_pc, s_input, s_metadata, s_allowance, s_strategy>>
    /\ UNCHANGED <<geomVars, pipeVars, configVars>>

\* the scanner is at the end of the input: the writer is flushed
SFinish ==
    /\ s_pc = "run"
    /\ s_stats.TotalLines = Len(s_input)
    /\ s_pc' = "done"
    /\ UNCHANGED <<s_input, s_metadata, s_allowance, s_strategy, s_stats, s_last,
                   s_currentFeedRate, s_feedRateWarned, s_warnings, s_writer, s_log>>
    /\ UNCHANGED <<geomVars, pipeVars, configVars>>

StreamNext ==
    \/ SSkipMalformed
    \/ SFilter
    \/ SKeep
    \/ SFinish

SpecStream == StreamInit /\ [][StreamNext]_vars

\* either program, on its input
ProgramsNext == Next \/ StreamNext

SpecPrograms == (Init \/ StreamInit) /\ [][ProgramsNext]_vars

----------------------------------------------------------------------------
\* The specification of the configuration of a run: run, from its arguments
\* to the opening of the input file

ConfigInit ==
    /\ c_pc = "args"
    /\ c_args \in CommandLines
    /\ c_env \in Environments
    /\ c_parsed = NoArgs
    /\ c_strategy = <<>>
    /\ c_stderr = <<>>
    /\ c_exit = <<>>
    /\ GeomIdle
    /\ PipeIdle
    /\ StreamIdle

\* return cli.PrintError(err)
CFail(error) ==
    /\ c_stderr' = Append(c_stderr, error)
    /\ c_exit' = <<PrintError(error)>>
    /\ c_pc' = "exit"

\* parsedArgs, err := cli.ParseArgs(args)
CParseArgs ==
    /\ c_pc = "args"
    /\ IF ParseArgs(c_args).err
       THEN CFail(ParseArgs(c_args).error) /\ UNCHANGED c_parsed
       ELSE /\ c_parsed' = ParseArgs(c_args).args
            /\ c_pc' = "parsed"
            /\ UNCHANGED <<c_stderr, c_exit>>
    /\ UNCHANGED <<c_args, c_env, c_strategy>>
    /\ UNCHANGED <<geomVars, pipeVars, streamVars>>

\* cli.ValidateArgs(parsedArgs)
CValidateArgs ==
    /\ c_pc = "parsed"
    /\ IF ~c_env.inputExists \/ ~c_env.outputDirExists
       THEN CFail(OtherError)
       ELSE c_pc' = "validated" /\ UNCHANGED <<c_stderr, c_exit>>
    /\ UNCHANGED <<c_args, c_env, c_parsed, c_strategy>>
    /\ UNCHANGED <<geomVars, pipeVars, streamVars>>

\* strategy, err := optimizer.ParseFilterStrategy(parsedArgs.Strategy)
CParseFilterStrategy ==
    /\ c_pc = "validated"
    /\ IF ParseFilterStrategy(c_parsed.Strategy).err
       THEN CFail(InvalidStrategyError(c_parsed.Strategy)) /\ UNCHANGED c_strategy
       ELSE /\ c_strategy' = <<ParseFilterStrategy(c_parsed.Strategy).strategy>>
            /\ c_pc' = "strategy"
            /\ UNCHANGED <<c_stderr, c_exit>>
    /\ UNCHANGED <<c_args, c_env, c_parsed>>
    /\ UNCHANGED <<geomVars, pipeVars, streamVars>>

\* the output file exists and --force is not given: an error; else the run
\* starts
CCheckOutput ==
    /\ c_pc = "strategy"
    /\ IF ~c_parsed.Force /\ c_env.outputExists
       THEN CFail(OtherError)
       ELSE c_pc' = "running" /\ UNCHANGED <<c_stderr, c_exit>>
    /\ UNCHANGED <<c_args, c_env, c_parsed, c_strategy>>
    /\ UNCHANGED <<geomVars, pipeVars, streamVars>>

ConfigNext ==
    \/ CParseArgs
    \/ CValidateArgs
    \/ CParseFilterStrategy
    \/ CCheckOutput

SpecConfig == ConfigInit /\ [][ConfigNext]_vars

----------------------------------------------------------------------------
\* Claims about the optimizer's functions (specification SpecGeom)

Crossings == {"CrossingEnter", "CrossingLeave"}
GClassified == g_pc \in {"classified", "intersected", "split"}
GIntersected == g_pc \in {"intersected", "split"}

\* the end point of the move read off the line, word by word
GEndOf(l) == IF HasLetter(g_line, l) THEN LetterValue(g_line, l, 0) ELSE g_start[l]

\* equality and order of rationals <<n, d>>, d > 0
RatEq(p, q) == p[1] * q[2] = q[1] * p[2]
RatLess(p, q) == p[1] * q[2] < q[1] * p[2]

\* C1: ClassifyMove returns exactly one classification: Shallow when both
\* depths are strictly above the threshold, Deep when both are at or below
\* it, CrossingEnter when the start is above and the end at or below,
\* CrossingLeave when the start is at or below and the end above; a move
\* with both ends on the threshold is Deep.
C1_ClassifyTotal ==
    GClassified =>
        LET sz == g_start.Z
            ez == GEndOf("Z")
            th == g_threshold
        IN  /\ g_cls \in {"Shallow", "Deep", "CrossingEnter", "CrossingLeave"}
            /\ (g_cls = "Shallow") <=> (sz > th /\ ez > th)
            /\ (g_cls = "Deep") <=> (sz <= th /\ ez <= th)
            /\ (g_cls = "CrossingEnter") <=> (sz > th /\ ez <= th)
            /\ (g_cls = "CrossingLeave") <=> (sz <= th /\ ez > th)
            /\ (sz = th /\ ez = th) => g_cls = "Deep"

C1_Witness ==
    /\ g_pc = "classified"
    /\ g_start.Z = g_threshold
    /\ HasLetter(g_line, "Z")
    /\ GEndOf("Z") = g_threshold
    /\ g_cls = "Deep"

\* C2: no degenerate crossing: a move with an end point exactly on the
\* threshold is never classified CrossingEnter or CrossingLeave, and for
\* every move classified as a crossing CalculateIntersection succeeds with
\* 0 < t < 1.
C2_NoDegenerateCrossing ==
    /\ (GClassified /\ (g_start.Z = g_threshold \/ GEndOf("Z") = g_threshold))
          => g_cls \notin Crossings
    /\ (GIntersected /\ g_cls \in Crossings)
          => (g_ipt.ok /\ RatLess(<<0, 1>>, g_ipt.T) /\ RatLess(g_ipt.T, <<1, 1>>))

\* C3: CalculateIntersection returns an error and no point when
\* |endZ - startZ| < 1e-9 or t = (threshold - startZ)/(endZ - startZ) is not
\* in (0, 1); otherwise a point with Z the threshold, T = t and X, Y equal
\* to start + t*(end - start).
C3_Intersection ==
    GIntersected =>
        LET sz == g_start.Z
            dz == GEndOf("Z") - sz
            num == g_threshold - sz
            flat == dz = 0
            inside == \/ (dz > 0 /\ 0 < num /\ num < dz)
                      \/ (dz < 0 /\ dz < num /\ num < 0)
        IN  IF flat \/ ~inside
            THEN g_ipt = NoPoint
            ELSE /\ g_ipt.ok
                 /\ g_ipt.Z = g_threshold
                 /\ g_ipt.T[1] * dz = num * g_ipt.T[2]
                 /\ g_ipt.X[1] * dz =
                       g_ipt.X[2] * (g_start.X * dz + num * (GEndOf("X") - g_start.X))
                 /\ g_ipt.Y[1] * dz =
                       g_ipt.Y[2] * (g_start.Y * dz + num * (GEndOf("Y") - g_start.Y))

C3_Witness ==
    /\ g_pc = "intersected"
    /\ g_ipt.ok
    /\ HasLetter(g_line, "X")
    /\ RatLess(<<g_start.X, 1>>, g_ipt.X)
    /\ RatLess(g_ipt.X, <<GEndOf("X"), 1>>)

\* C7: ShouldPreserve depends on the strategy only for crossing moves:
\* Shallow is never preserved, Deep and NonCutting always are, and
\* CrossingEnter and CrossingLeave are preserved whole under Conservative
\* and not preserved whole under Aggressive.
C7_StrategyDecision ==
    g_pc = "decided" =>
        /\ g_decision.cls = "Shallow" => ~g_decision.preserve
        /\ g_decision.cls \in {"Deep", "NonCutting"} => g_decision.preserve
        /\ g_decision.cls \in Crossings =>
              (g_decision.preserve <=> g_decision.strategy = "Conservative")
        /\ g_decision.cls \in Crossings =>
              (~g_decision.preserve <=> g_decision.strategy = "Aggressive")

C7_Witness ==
    /\ g_pc = "decided"
    /\ g_decision.cls = "CrossingLeave"
    /\ g_decision.strategy = "Aggressive"
    /\ ~g_decision.preserve

Axes == {"X", "Y", "Z", "B"}
AxesOf(line) == {l \in Axes : HasLetter(line, l)}

\* the non-empty lines of a SplitMove result
Emitted(r) == {l \in {r.line1, r.line2} : l # EmptyLine}

\* C8: each non-empty line SplitMove returns carries exactly the axis
\* letters (among X, Y, Z, B) of the source line, in both versions of
\* SplitMove.
C8_AxisSetKept ==
    g_pc = "split" =>
        /\ \A l \in Emitted(g_split) : AxesOf(l) = AxesOf(g_line)
        /\ \A l \in Emitted(g_split3) : AxesOf(l) = AxesOf(g_line)

\* C8 holds of the version of SplitMove that takes startB
C8_AxisSetKept4Axis ==
    g_pc = "split" => \A l \in Emitted(g_split) : AxesOf(l) = AxesOf(g_line)

\* the feed rate in effect for the source line: its F word or the modal one
FeedInEffect == IF HasLetter(g_line, "F") THEN LetterValue(g_line, "F", 0) ELSE g_start.F

\* C9 as stated: every line of a split of a G1 move carries the feed rate
\* in effect for the source line, from the line or else from modal state;
\* a split of a G0 move carries none.
C9_FeedInEffectCarried ==
    g_pc = "split" =>
        \A l \in Emitted(g_split) :
            /\ HasG(g_line, 1) => (HasLetter(l, "F") /\ LetterValue(l, "F", 0) = FeedInEffect)
            /\ HasG(g_line, 0) => ~HasLetter(l, "F")

\* C9 as amended: a line of a split carries an F word exactly when the
\* source is a G1 move whose own F word is positive, and then that value;
\* the modal feed rate is not consulted; a split of a G0 move carries none.
C9_OwnFeedCarried ==
    g_pc = "split" =>
        \A l \in Emitted(g_split) \cup Emitted(g_split3) :
            /\ HasLetter(l, "F") <=>
                  (HasG(g_line, 1) /\ HasLetter(g_line, "F") /\ LetterValue(g_line, "F", 0) > 0)
            /\ HasLetter(l, "F") => LetterValue(l, "F", 0) = LetterValue(g_line, "F", 0)
            /\ HasG(g_line, 0) => ~HasLetter(l, "F")

C9_Witness ==
    /\ g_pc = "split"
    /\ HasG(g_line, 1)
    /\ LetterValue(g_line, "F", 0) = 1000
    /\ g_split.line2 # EmptyLine
    /\ LetterValue(g_split.line1, "F", 0) = 1000
    /\ LetterValue(g_split.line2, "F", 0) = 1000

\* the value v is the rational q rounded to the four-decimal grid
IsRound4(v, q) ==
    /\ v % RoundGrid = 0
    /\ 2 * Abs(v * q[2] - q[1]) <= RoundGrid * q[2]

\* the intersection point of the move on axis l, B included
GPointOn(l) ==
    IF l = "Z" THEN <<g_ipt.Z, 1>>
    ELSE IF l = "X" THEN g_ipt.X
    ELSE IF l = "Y" THEN g_ipt.Y
    ELSE Lerp(g_start.B, GEndOf("B"), g_ipt.T)

\* the line ends at the intersection point: each axis word is the point's
\* coordinate to four decimals, and the move has no motion on an axis
\* without a word
EndsAtIntersection(l) ==
    /\ l # EmptyLine
    /\ \A a \in Axes :
          IF HasLetter(l, a) THEN IsRound4(LetterValue(l, a, 0), GPointOn(a))
          ELSE RatEq(GPointOn(a), <<g_start[a], 1>>)

\* the line ends at the end point of the source line
EndsAtEnd(l) ==
    /\ l # EmptyLine
    /\ \A a \in Axes :
          IF HasLetter(l, a) THEN LetterValue(l, a, 0) = GEndOf(a)
          ELSE GEndOf(a) = g_start[a]

\* C10: for CrossingEnter SplitMove returns two lines, the first ending at
\* the intersection point and the second at the original end point; for
\* CrossingLeave one line ending at the intersection point and an empty
\* second line.
C10_SplitShape ==
    (g_pc = "split" /\ ~g_split.err) =>
        /\ g_cls = "CrossingEnter" =>
              (EndsAtIntersection(g_split.line1) /\ EndsAtEnd(g_split.line2))
        /\ g_cls = "CrossingLeave" =>
              (EndsAtIntersection(g_split.line1) /\ g_split.line2 = EmptyLine)

C10_Witness ==
    /\ g_pc = "split"
    /\ g_cls = "CrossingEnter"
    /\ ~g_split.err
    /\ HasLetter(g_split.line1, "X")
    /\ LetterValue(g_split.line1, "X", 0) \notin {g_start.X, GEndOf("X")}
    /\ g_split.line2 # EmptyLine

----------------------------------------------------------------------------
\* Claims about pass 2 of the pipeline (specification Spec)

\* the lines written so far are those the log says each line produced
RECURSIVE Written(_, _)
Written(lg, n) == IF n = 0 THEN <<>> ELSE Written(lg, n - 1) \o lg[n].written

\* the G1 moves seen so far with a classification in S
CuttingIn(S) == {i \in DOMAIN log : log[i].isG1 /\ log[i].cls \in S}

\* C4: under Aggressive every G1 move classified as a crossing is replaced
\* in the output by its split line(s), neither dropped nor kept whole, two
\* lines for CrossingEnter of which the first has Z equal to the threshold,
\* and the split counter counts these moves.
C4_AggressiveSplits ==
    (pc \in {"pass2", "done"} /\ opt.strategy = "Aggressive") =>
        /\ \A i \in CuttingIn(Crossings) :
              /\ log[i].written # <<>>
              /\ log[i].written # <<log[i].line>>
              /\ log[i].cls = "CrossingEnter" =>
                    /\ Len(log[i].written) = 2
                    /\ LetterValue(log[i].written[1], "Z", log[i].startZ) = opt.threshold
        /\ linesSplit = Cardinality(CuttingIn(Crossings))

\* C5: under either strategy a G1 move classified Shallow is left out of
\* the output and counted as removed, and at the end of the run the removed
\* counter is the number of G1 moves classified Shallow.
C5_RemovedAreShallow ==
    /\ pc \in {"pass2", "done"} =>
          /\ \A i \in CuttingIn({"Shallow"}) : log[i].written = <<>>
          /\ linesRemoved >= Cardinality(CuttingIn({"Shallow"}))
    /\ pc = "done" => result.LinesRemoved = Cardinality(CuttingIn({"Shallow"}))

\* C6: under Conservative every G1 move classified as a crossing is written
\* as the one original line, unchanged, and the split counter is 0
\* throughout the run.
C6_ConservativeKeepsCrossings ==
    (pc \in {"pass2", "done"} /\ strategy = "Conservative") =>
        /\ output = Written(log, Len(log))
        /\ \A i \in CuttingIn(Crossings) : log[i].written = <<log[i].line>>
        /\ linesSplit = 0
        /\ pc = "done" => result.LinesSplit = 0

C6_Witness ==
    /\ pc = "done"
    /\ strategy = "Conservative"
    /\ \E i \in CuttingIn({"CrossingEnter"}) : log[i].written = <<log[i].line>>
    /\ \E i \in CuttingIn({"CrossingLeave"}) : output[Len(output)] = log[i].line

\* C11: a move classified as a crossing whose intersection calculation
\* fails is written to the output whole: the failure never removes it.
C11_FailedIntersectionKeepsMove ==
    pc \in {"pass2", "done"} =>
        \A i \in CuttingIn(Crossings) :
            ~CalculateIntersection(0, 0, log[i].startZ, 0, 0, log[i].endZ, opt.threshold).ok
                => log[i].written = <<log[i].line>>

----------------------------------------------------------------------------
\* Claims about the parser's modal state and the depth scan (specification Spec)

StateFields == {"X", "Y", "Z", "B", "F"}

\* the value a field has before any line: Parser.ResetState
InitialValue(l) == IF l = "Z" THEN maxZ ELSE 0

\* the lines among the first n that carry the letter
Carriers(l, n) == {i \in 1..n : HasLetter(file[i], l)}

\* the value of the letter on the last of the first n lines that carries it
MostRecent(l, n) ==
    LET c == Carriers(l, n)
    IN  IF c = {} THEN InitialValue(l)
        ELSE LetterValue(file[CHOOSE i \in c : \A j \in c : j <= i], l, 0)

\* the lines the parser has applied to its state
PrefixLen == IF pc = "failed" THEN Len(file) ELSE idx

\* C14: after any prefix of the instruction stream each field of the modal
\* state (X, Y, Z, B, F) is the value of the most recent line of the prefix
\* that carries that letter, or the initial value when there is none: the
\* header's max_z for Z, 0 for the others.
C14_ModalState ==
    \A l \in StateFields : state[l] = MostRecent(l, PrefixLen)

\* pass 2 is behind a line without a Z word and Z is inherited from an
\* earlier line
C14_Witness ==
    /\ pc = "pass2"
    /\ idx >= 2
    /\ ~HasLetter(file[idx], "Z")
    /\ Carriers("Z", idx) # {}
    /\ state.Z # maxZ
    /\ state.X # 0

\* the G0 and G1 lines of the file
MotionLines == {i \in 1..Len(file) : HasG(file[i], 0) \/ HasG(file[i], 1)}

\* the depth in effect behind line i
DepthAfter(i) == MostRecent("Z", i)

\* the least depth in effect behind a motion line
MinDepth ==
    LET ds == {DepthAfter(i) : i \in MotionLines}
    IN  CHOOSE d \in ds : \A e \in ds : d <= e

C17_Pass2StartsReset ==
    (pc = "scanned" \/ (pc = "pass2" /\ idx = 0)) =>
        state = [X |-> 0, Y |-> 0, Z |-> maxZ, B |-> 0, F |-> 0]

\* pass 2 is about to take its first line, the header has a max_z and the
\* scan has moved every field the file moves
C17_Witness ==
    /\ pc = "pass2"
    /\ idx = 0
    /\ maxZ # 0
    /\ UpdateStateAll(ResetState(maxZ), file, 1).Z # maxZ
    /\ UpdateStateAll(ResetState(maxZ), file, 1).X # 0
    /\ state.Z = maxZ
    /\ state.X = 0

\* C18: the threshold is computed once: the scan is complete before pass 2
\* classifies its first move, every classification of pass 2 is made against
\* the threshold of the whole file, and neither the minimum nor the
\* optimizer changes once pass 2 has begun.
C18_ThresholdFixed ==
    /\ [](/\ log # <<>> => pc \in {"pass2", "done"}
          /\ pc \in {"pass2", "done"} =>
                /\ opt.threshold = minZ + allowance
                /\ \A i \in DOMAIN log :
                      /\ log[i].threshold = minZ + allowance
                      /\ log[i].isG1 =>
                            log[i].cls = ClassifyMove(log[i].startZ, log[i].endZ,
                                                      allowance + MinDepth))
    /\ [][/\ pc \in {"pass2", "done"} => (opt' = opt /\ minZ' = minZ)
          /\ pc' = "scanned" => pc = "start"
          /\ minZ' # minZ => pc = "start"
          /\ opt' # opt => pc = "scanned"]_vars

\* pass 2 has classified two lines and the deepest move is still ahead
C18_Witness ==
    /\ pc = "pass2"
    /\ Len(log) >= 2
    /\ \E i \in DOMAIN log : log[i].isG1
    /\ \A i \in MotionLines : DepthAfter(i) = MinDepth => i > idx

----------------------------------------------------------------------------
\* Claims about what the two programs write (specification SpecPrograms) and
\* about the streaming filter's decision (specification SpecStream)

\* the line of text is a G1 move
IsG1Text(l) == ~l.Bad /\ HasG(l, 1)

\* the threshold of the streaming filter: the Z reference minus the allowance
StreamThreshold == GetZReference(s_metadata) - s_allowance

\* the G1 lines read so far that carry a Z word
DepthMoves == {i \in DOMAIN s_log : IsG1Text(s_input[i]) /\ HasLetter(s_input[i], "Z")}
DepthOf(i) == LetterValue(s_input[i], "Z", 0)

\* C12: every line that is not a G1 move (a G0 rapid, an M-code, a comment
\* or header line, a blank line, an arc) is written to the output as it is,
\* whatever its depth, the allowance and the strategy: in pass 2 of the
\* two-pass pipeline and in the streaming filter, for every line it parses.
C12_NonCuttingKept ==
    /\ \A i \in DOMAIN log :
          ~HasG(file[i], 1) => log[i].written = <<file[i]>>
    /\ output = Written(log, Len(log))
    /\ \A i \in DOMAIN s_log :
          (~s_input[i].Bad /\ ~IsG1Text(s_input[i])) => s_log[i].written = <<s_input[i]>>
    /\ s_writer.lines = Written(s_log, Len(s_log))

\* the aggressive streaming filter has removed a move and kept a rapid whose
\* Z is above the threshold
C12_Witness ==
    /\ s_pc = "done"
    /\ s_strategy = "StrategyAggressive"
    /\ s_stats.RemovedLines >= 1
    /\ \E i \in DOMAIN s_log :
          /\ HasG(s_input[i], 0)
          /\ LetterValue(s_input[i], "Z", 0) > StreamThreshold
          /\ s_input[i] \in {s_writer.lines[k] : k \in DOMAIN s_writer.lines}

\* C13: the output is the input with some lines left out: each line read is
\* written once or not at all, the lines written are in the order they were
\* read, and nothing else is written; in the streaming filter the lines left
\* out are the malformed and the filtered ones.
C13_OrderPreserved ==
    /\ Len(log) = idx
    /\ \A i \in DOMAIN log :
          /\ log[i].line = file[i]
          /\ log[i].written \in {<<>>, <<file[i]>>}
    /\ output = Written(log, Len(log))
    /\ Len(s_log) = s_stats.TotalLines
    /\ \A i \in DOMAIN s_log :
          /\ s_log[i].line = s_input[i]
          /\ s_log[i].written \in {<<>>, <<s_input[i]>>}
          /\ s_log[i].written = <<>> <=> (s_log[i].err \/ s_log[i].filtered)
    /\ s_writer.lines = Written(s_log, Len(s_log))
    /\ s_writer.lineCount = Len(s_writer.lines)

\* the streaming filter has read three lines, dropped the second and written
\* the first and the third, which differ
C13_Witness ==
    /\ s_pc = "done"
    /\ Len(s_input) = 3
    /\ s_log[2].written = <<>>
    /\ s_input[1] # s_input[3]
    /\ s_writer.lines = <<s_input[1], s_input[3]>>

\* C19: the streaming filter removes a line only if it is a G1 move with a
\* Z word strictly above the threshold (Z reference minus allowance), under
\* every strategy; a G1 move with Z at or below the threshold is written.
C19_DeepNeverFiltered ==
    /\ \A i \in DOMAIN s_log :
          s_log[i].filtered =>
              /\ i \in DepthMoves
              /\ DepthOf(i) > StreamThreshold
              /\ s_log[i].written = <<>>
    /\ \A i \in DepthMoves :
          DepthOf(i) <= StreamThreshold =>
              /\ ~s_log[i].filtered
              /\ s_log[i].written = <<s_input[i]>>

\* under Aggressive a depth-only G1 move exactly on the threshold was kept in
\* a run with a header reference
C19_Witness ==
    /\ s_strategy = "StrategyAggressive"
    /\ s_metadata.ZReference = "ZRefMetadata"
    /\ \E i \in DepthMoves :
          /\ DepthOf(i) = StreamThreshold
          /\ AxesOf(s_input[i]) = {"Z"}
          /\ s_log[i].written = <<s_input[i]>>

\* the words of a line that name an axis other than the depth axis
OtherAxes(l) == {a \in {"X", "Y", "A", "B"} : HasLetter(l, a)}

\* C20: a G1 move with Z strictly above the threshold is, under Safe, kept
\* if it carries any of X, Y, A, B and removed if it carries none; under
\* AllAxes and Aggressive it is removed whatever other axes it carries.
C20_SafeKeepsMultiAxis ==
    \A i \in DepthMoves :
        DepthOf(i) > StreamThreshold =>
            /\ s_strategy = "StrategySafe" =>
                  (s_log[i].filtered <=> OtherAxes(s_input[i]) = {})
            /\ s_strategy \in {"StrategyAllAxes", "StrategyAggressive"} =>
                  s_log[i].filtered

\* under Safe a shallow move with a rotary axis only was kept and a shallow
\* depth-only move removed
C20_Witness ==
    /\ s_strategy = "StrategySafe"
    /\ \E i, j \in DepthMoves :
          /\ DepthOf(i) > StreamThreshold /\ DepthOf(j) > StreamThreshold
          /\ OtherAxes(s_input[i]) = {"B"} /\ ~s_log[i].filtered
          /\ OtherAxes(s_input[j]) = {} /\ s_log[j].filtered

----------------------------------------------------------------------------
\* Claims about the run of the streaming filter (specification SpecStream)

\* the decision of Safe said without applyStrategy: a G1 move with a Z word
\* above the threshold and no other axis is removed, everything else kept
SafeRemoves(i) ==
    /\ i \in DepthMoves
    /\ DepthOf(i) > StreamThreshold
    /\ OtherAxes(s_input[i]) = {}

BadLines(n) == {i \in 1..n : s_input[i].Bad}
MalformedWarnings == {k \in DOMAIN s_warnings : s_warnings[k].kind = "malformed"}

FeedRateWarnings == {k \in DOMAIN s_warnings : s_warnings[k].kind = "feedrate"}
DefaultSubstituted == \E i \in DOMAIN s_log : s_log[i].defaulted

\* C25: the default-feed-rate warning is printed once in a run in which the
\* default feed rate was substituted for a zero or unset feed rate for at
\* least one move, and not at all in a run in which it never was.
C25_DefaultAdvisoryOnce ==
    s_pc = "done" =>
        Cardinality(FeedRateWarnings) = IF DefaultSubstituted THEN 1 ELSE 0

\* the value of the last word with the letter on the lines, <<>> if none
LastWord(lines, l) ==
    LET c == {i \in DOMAIN lines : ~lines[i].Bad /\ HasLetter(lines[i], l)}
    IN  IF c = {} THEN <<>>
        ELSE <<LetterValue(lines[CHOOSE i \in c : \A j \in c : j <= i], l, 0)>>

\* the value in effect in the input program behind its first n lines, 0
\* before any word with the letter
InputValue(l, n) ==
    LET w == LastWord(SubSeq(s_input, 1, n), l)
    IN  IF w = <<>> THEN 0 ELSE w[1]

\* the time the input program spends on line i: from its modal position
\* before the line to the one behind it, at the feed rate in effect for the
\* line, the default when that is zero or unset
InputTerm(i) ==
    LET dx == InputValue("X", i) - InputValue("X", i - 1)
        dy == InputValue("Y", i) - InputValue("Y", i - 1)
        dz == InputValue("Z", i) - InputValue("Z", i - 1)
        f  == InputValue("F", i)
    IN  [d2 |-> dx * dx + dy * dy + dz * dz, feed |-> IF f <= 0 THEN 1000 ELSE f]

\* two terms are the same duration: sqrt(t.d2) / t.feed = sqrt(u.d2) / u.feed
TermEq(t, u) == t.d2 * u.feed * u.feed = u.d2 * t.feed * t.feed

RECURSIVE Terms(_, _)
Terms(lg, n) == IF n = 0 THEN <<>> ELSE Terms(lg, n - 1) \o lg[n].term

\* C26: every removed move adds to the time saved the distance from the
\* input program's modal position before the move to its end point, divided
\* by the feed rate in effect for the move (1000 when zero or unset); kept
\* lines add nothing and the total is the sum of the terms of the removed
\* moves.
C26_TimeSavedPerMove ==
    /\ s_stats.EstimatedTimeSaved = Terms(s_log, Len(s_log))
    /\ \A i \in DOMAIN s_log :
          /\ ~s_log[i].filtered => s_log[i].term = <<>>
          /\ s_log[i].filtered =>
                /\ Len(s_log[i].term) = 1
                /\ TermEq(s_log[i].term[1], InputTerm(i))

\* the G1 moves written so far
WrittenMoves == {i \in DOMAIN s_log : IsG1Text(s_input[i]) /\ s_log[i].written # <<>>}

\* C27: for every G1 move written, the last Z word among the lines written
\* up to and including the move is the last Z word among the input lines
\* read up to and including it.
C27_DepthInEffectKept ==
    \A i \in WrittenMoves :
        LastWord(Written(s_log, i), "Z") = LastWord(SubSeq(s_input, 1, i), "Z")

\* C28: for every G1 move written, the last F word among the lines written
\* up to and including the move is the last F word among the input lines
\* read up to and including it.
C28_FeedInEffectKept ==
    \A i \in WrittenMoves :
        LastWord(Written(s_log, i), "F") = LastWord(SubSeq(s_input, 1, i), "F")

\* C30: at the end of a run KeptLines, TotalLines - RemovedLines, is the
\* number of lines written to the output.
C30_KeptLinesAreWritten ==
    s_pc = "done" =>
        /\ KeptLines(s_stats) = s_writer.lineCount
        /\ KeptLines(s_stats) = Len(s_writer.lines)

----------------------------------------------------------------------------
\* The depth of retained moves in the two-pass pipeline (specification Spec)

\* the depth in effect behind line i when only the lines written are
\* replayed, from the same initial state
OutputDepth(i) ==
    LET w == Written(log, i)
        c == {k \in DOMAIN w : HasLetter(w[k], "Z")}
    IN  IF c = {} THEN maxZ
        ELSE LetterValue(w[CHOOSE k \in c : \A j \in c : j <= k], "Z", 0)

\* C29: in pass 2, under either strategy, behind every G1 line written the
\* depth obtained by replaying the lines written so far is the parser's
\* modal Z at that line, the depth obtained by replaying all lines so far.
C29_RetainedDepthReplayed ==
    \A i \in DOMAIN log :
        (log[i].isG1 /\ log[i].written # <<>>) =>
            /\ OutputDepth(i) = MostRecent("Z", i)
            /\ MostRecent("Z", i) = log[i].endZ

\* the same under Conservative alone
C29_ConservativeOnly == strategy = "Conservative" => C29_RetainedDepthReplayed

----------------------------------------------------------------------------
\* Claims about the configuration of a run (specification SpecConfig)

StrategyNames == {StrSafe, StrAllAxes, StrSplit, StrAggressive}

\* the variant a name stands for
VariantOf(name) ==
    CASE name = StrSafe       -> "StrategySafe"
      [] name = StrAllAxes    -> "StrategyAllAxes"
      [] name = StrSplit      -> "StrategySplit"
      [] name = StrAggressive -> "StrategyAggressive"

\* the string is the name up to the case of its letters
SameUpToCase(str, name) ==
    /\ Len(str) = Len(name)
    /\ \A i \in DOMAIN str : ToLowerChar(str[i]) = name[i]

\* --strategy is given with a string that is no strategy name in any case
UnknownStrategy ==
    /\ c_args.strategy # <<>>
    /\ \A name \in StrategyNames : ~SameUpToCase(c_args.strategy[1], name)

\* the errors printed that reject the strategy
StrategyErrors == {k \in DOMAIN c_stderr : c_stderr[k].type = "InvalidStrategyError"}

\* an unknown strategy never gets as far as a configured run, and no
\* strategy is put in its place
C22_RejectedBeforeRun ==
    UnknownStrategy =>
        /\ c_pc \notin {"validated", "strategy", "running"}
        /\ c_strategy = <<>>
        /\ c_parsed = NoArgs

\* C22: a --strategy value that matches no known variant is rejected before
\* the run starts, no default strategy is put in its place, and the error
\* printed for it lists the valid values.
C22_UnknownStrategyRejected ==
    /\ C22_RejectedBeforeRun
    /\ UnknownStrategy =>
          \A k \in StrategyErrors :
              /\ c_stderr[k].Strategy = c_args.strategy[1]
              /\ StrategyNames \subseteq {c_stderr[k].valid[j] : j \in DOMAIN c_stderr[k].valid}

\* C23: a --strategy value that is one of safe, all-axes, split, aggressive
\* up to letter case is accepted: it is never rejected as an invalid
\* strategy, and a run that gets past the arguments is configured with the
\* variant of that name.
C23_CaseInsensitive ==
    \A name \in StrategyNames :
        (c_args.strategy # <<>> /\ SameUpToCase(c_args.strategy[1], name)) =>
            /\ StrategyErrors = {}
            /\ c_pc \in {"strategy", "running"} => c_strategy = <<VariantOf(name)>>

====
